---- MODULE Spec2Model ----
(***************************************************************************)
(* Detection-to-inventory matching pipeline of VisionScan POS.            *)
(*                                                                         *)
(* Strings are sequences of one-character strings.  Real numbers of the   *)
(* model reply are kept in tenths (9 is 0.9); similarity scores are kept  *)
(* as the exact fraction 2*M / T and compared by cross-multiplication,    *)
(* which orders them as the correctly rounded doubles of the code do.     *)
(***************************************************************************)
EXTENDS Integers, Sequences, FiniteSets, TLC

(***************************************************************************)
(* Bounds of the exploration.                                              *)
(***************************************************************************)
MaxItems == 2
MaxProducts == 2

(***************************************************************************)
(* str.lower() and str.strip() on the alphabet the model uses.             *)
(***************************************************************************)
LowerChar(c) ==
    CASE c = "A" -> "a"
      [] c = "B" -> "b"
      [] c = "C" -> "c"
      [] c = "P" -> "p"
      [] c = "R" -> "r"
      [] c = "Z" -> "z"
      [] OTHER -> c

lower(s) == [i \in 1..Len(s) |-> LowerChar(s[i])]

IsSpace(c) == c = " "

strip(s) ==
    LET keep == {i \in 1..Len(s) : ~IsSpace(s[i])}
    IN  IF keep = {} THEN << >>
        ELSE LET lo == CHOOSE i \in keep : \A j \in keep : i <= j
                 hi == CHOOSE i \in keep : \A j \in keep : i >= j
             IN  SubSeq(s, lo, hi)

(***************************************************************************)
(* difflib.SequenceMatcher(None, a, b).ratio(): the longest matching block *)
(* (longest, then earliest in a, then earliest in b), then the same to the *)
(* left and to the right of it; ratio = 2*M / T, and 1.0 when T = 0.       *)
(***************************************************************************)
RECURSIVE RunLen(_, _, _, _, _, _)
RunLen(a, b, i, j, ahi, bhi) ==
    IF i > ahi \/ j > bhi THEN 0
    ELSE IF a[i] # b[j] THEN 0
    ELSE 1 + RunLen(a, b, i + 1, j + 1, ahi, bhi)

find_longest_match(a, b, alo, ahi, blo, bhi) ==
    LET starts == {x \in (alo..ahi) \X (blo..bhi) : a[x[1]] = b[x[2]]}
        len == [x \in starts |-> RunLen(a, b, x[1], x[2], ahi, bhi)]
    IN  IF starts = {} THEN <<alo, blo, 0>>
        ELSE LET m == CHOOSE x \in starts : \A y \in starts :
                        \/ len[x] > len[y]
                        \/ len[x] = len[y] /\ x[1] < y[1]
                        \/ len[x] = len[y] /\ x[1] = y[1] /\ x[2] <= y[2]
             IN  <<m[1], m[2], len[m]>>

RECURSIVE matching_chars(_, _, _, _, _, _)
matching_chars(a, b, alo, ahi, blo, bhi) ==
    IF alo > ahi \/ blo > bhi THEN 0
    ELSE LET m == find_longest_match(a, b, alo, ahi, blo, bhi)
         IN  IF m[3] = 0 THEN 0
             ELSE m[3]
                  + matching_chars(a, b, alo, m[1] - 1, blo, m[2] - 1)
                  + matching_chars(a, b, m[1] + m[3], ahi, m[2] + m[3], bhi)

ratio(a, b) ==
    IF Len(a) + Len(b) = 0 THEN [num |-> 1, den |-> 1]
    ELSE [num |-> 2 * matching_chars(a, b, 1, Len(a), 1, Len(b)),
          den |-> Len(a) + Len(b)]

ScoreGt(x, y) == x.num * y.den > y.num * x.den
ScoreGe(x, y) == x.num * y.den >= y.num * x.den

ThresholdNum == 6
ThresholdDen == 10
FUZZY_MATCH_THRESHOLD == [num |-> ThresholdNum, den |-> ThresholdDen]

(***************************************************************************)
(* SQL ILIKE: case-insensitive LIKE, where _ in the pattern stands for any *)
(* one character and % for any run of characters.                          *)
(***************************************************************************)
RECURSIVE LikeFrom(_, _, _, _)
LikeFrom(s, p, i, j) ==
    IF j > Len(p) THEN i > Len(s)
    ELSE IF p[j] = "%" THEN \E k \in i..(Len(s) + 1) : LikeFrom(s, p, k, j + 1)
    ELSE /\ i <= Len(s)
         /\ (p[j] = "_" \/ p[j] = s[i])
         /\ LikeFrom(s, p, i + 1, j + 1)

ilike(s, p) == LikeFrom(lower(s), lower(p), 1, 1)

(***************************************************************************)
(* InventoryMaster rows and the absent result (None).                      *)
(***************************************************************************)
NoMatch == [id |-> 0, sku |-> << >>, name |-> << >>, aliases |-> << >>]

\* Query(...).first(): the first row, in table order, among those that pass
\* the filter (hits are their positions).
first(inv, hits) ==
    IF hits = {} THEN NoMatch
    ELSE inv[CHOOSE i \in hits : \A j \in hits : i <= j]

\* 1. Exact SKU match: sku = detected_lower, an equality of the two strings.
SkuTier(inv, detected_lower) ==
    first(inv, {i \in 1..Len(inv) : inv[i].sku = detected_lower})

\* 2. Exact name match: name ILIKE detected_lower.
NameTier(inv, detected_lower) ==
    first(inv, {i \in 1..Len(inv) : ilike(inv[i].name, detected_lower)})

\* 3. Alias match: the first item, in order, one of whose aliases lower-cased
\*    equals detected_lower.
AliasTier(inv, detected_lower) ==
    first(inv, {i \in 1..Len(inv) :
                  \E k \in 1..Len(inv[i].aliases) :
                      lower(inv[i].aliases[k]) = detected_lower})

\* The strings the fuzzy sweep scores, in the order it scores them: for each
\* item its name, then its aliases.
RECURSIVE SweepTargets(_, _)
SweepTargets(inv, i) ==
    IF i > Len(inv) THEN << >>
    ELSE <<[item |-> i, text |-> inv[i].name]>>
         \o [k \in 1..Len(inv[i].aliases) |->
                [item |-> i, text |-> inv[i].aliases[k]]]
         \o SweepTargets(inv, i + 1)

ZeroScore == [num |-> 0, den |-> 1]

RECURSIVE Sweep(_, _, _, _, _)
Sweep(inv, detected_lower, targets, k, best) ==
    IF k > Len(targets) THEN best
    ELSE LET score == ratio(detected_lower, lower(targets[k].text))
         IN  IF ScoreGt(score, best.score)
             THEN Sweep(inv, detected_lower, targets, k + 1,
                        [score |-> score, match |-> inv[targets[k].item]])
             ELSE Sweep(inv, detected_lower, targets, k + 1, best)

BestOfSweep(inv, detected_lower) ==
    Sweep(inv, detected_lower, SweepTargets(inv, 1), 1,
          [score |-> ZeroScore, match |-> NoMatch])

\* A fuzzy tier that wants the best score strictly above the threshold.
FuzzyTier_strict(inv, detected_lower) ==
    LET best == BestOfSweep(inv, detected_lower)
    IN  IF ScoreGt(best.score, FUZZY_MATCH_THRESHOLD) THEN best.match
        ELSE NoMatch

\* 4. Fuzzy match.
FuzzyTier(inv, detected_lower) ==
    LET best == BestOfSweep(inv, detected_lower)
    IN  IF ScoreGe(best.score, FUZZY_MATCH_THRESHOLD) THEN best.match
        ELSE NoMatch

match_product(inv, detected_name) ==
    LET detected_lower == strip(lower(detected_name))
        bySku   == SkuTier(inv, detected_lower)
        byName  == NameTier(inv, detected_lower)
        byAlias == AliasTier(inv, detected_lower)
    IN  IF bySku # NoMatch THEN bySku
        ELSE IF byName # NoMatch THEN byName
        ELSE IF byAlias # NoMatch THEN byAlias
        ELSE FuzzyTier(inv, detected_lower)

(***************************************************************************)
(* Python exceptions: the classes an exception is an instance of.  The     *)
(* exceptions of the requests library derive from OSError, not from the    *)
(* built-in ConnectionError or TimeoutError; HTTPException derives from    *)
(* Exception; pydantic's ValidationError and json's JSONDecodeError derive *)
(* from ValueError.                                                        *)
(***************************************************************************)
NoExc == "none"

Ancestors(exc) ==
    CASE exc = "ValueError"      -> {"ValueError", "Exception"}
      [] exc = "TypeError"       -> {"TypeError", "Exception"}
      [] exc = "KeyError"        -> {"KeyError", "LookupError", "Exception"}
      [] exc = "AttributeError"  -> {"AttributeError", "Exception"}
      [] exc = "OverflowError"   -> {"OverflowError", "ArithmeticError", "Exception"}
      [] exc = "JSONDecodeError" -> {"JSONDecodeError", "ValueError", "Exception"}
      [] exc = "ValidationError" -> {"ValidationError", "ValueError", "Exception"}
      [] exc = "HTTPException"   -> {"HTTPException", "Exception"}
      [] exc = "requests.ConnectionError" ->
            {"requests.ConnectionError", "requests.RequestException",
             "OSError", "Exception"}
      [] exc = "requests.Timeout" ->
            {"requests.Timeout", "requests.RequestException",
             "OSError", "Exception"}
      [] exc = "requests.HTTPError" ->
            {"requests.HTTPError", "requests.RequestException",
             "OSError", "Exception"}
      [] exc = "requests.JSONDecodeError" ->
            {"requests.JSONDecodeError", "requests.RequestException",
             "JSONDecodeError", "ValueError", "OSError", "Exception"}
      [] OTHER -> {exc, "Exception"}

IsInstance(exc, classes) == exc # NoExc /\ Ancestors(exc) \cap classes # {}

(***************************************************************************)
(* Floats: a finite value in tenths, or nan, or +inf.  Comparisons with    *)
(* nan are false, as in IEEE 754.                                          *)
(***************************************************************************)
Fin(n) == [k |-> "fin", v |-> n]
NaN == [k |-> "nan", v |-> 0]
PosInf == [k |-> "inf", v |-> 0]

FloatGt(x, y) ==
    /\ x.k # "nan"
    /\ y.k # "nan"
    /\ \/ x.k = "inf" /\ y.k = "fin"
       \/ x.k = "fin" /\ y.k = "fin" /\ x.v > y.v

\* The built-ins max(a, b) and min(a, b): a, unless b compares beyond it.
py_max(a, b) == IF FloatGt(b, a) THEN b ELSE a
py_min(a, b) == IF FloatGt(a, b) THEN b ELSE a

\* Values of a JSON document's fields.
Absent == [t |-> "absent", n |-> 0, s |-> << >>]
Null == [t |-> "null", n |-> 0, s |-> << >>]
NaNLit == [t |-> "nan", n |-> 0, s |-> << >>]
InfLit == [t |-> "inf", n |-> 0, s |-> << >>]
Num(n) == [t |-> "num", n |-> n, s |-> << >>]
Str(s) == [t |-> "str", n |-> 0, s |-> s]

\* dict.get(key, default)
get(v, default) == IF v.t = "absent" THEN default ELSE v

\* float(x); the strings of the model are not numerals.
py_float(v) ==
    CASE v.t = "num"  -> [exc |-> NoExc, val |-> Fin(v.n)]
      [] v.t = "nan"  -> [exc |-> NoExc, val |-> NaN]
      [] v.t = "inf"  -> [exc |-> NoExc, val |-> PosInf]
      [] v.t = "str"  -> [exc |-> "ValueError", val |-> Fin(0)]
      [] OTHER        -> [exc |-> "TypeError", val |-> Fin(0)]

\* int(x): truncation toward zero, in units.
Trunc(n) == IF n >= 0 THEN n \div 10 ELSE -((-n) \div 10)

py_int(v) ==
    CASE v.t = "num"  -> [exc |-> NoExc, val |-> Trunc(v.n)]
      [] v.t = "nan"  -> [exc |-> "ValueError", val |-> 0]
      [] v.t = "inf"  -> [exc |-> "OverflowError", val |-> 0]
      [] v.t = "str"  -> [exc |-> "ValueError", val |-> 0]
      [] OTHER        -> [exc |-> "TypeError", val |-> 0]

(***************************************************************************)
(* OllamaDetectionResult.                                                  *)
(***************************************************************************)
NoGuess == [product_name |-> << >>, confidence |-> Fin(0), quantity |-> 0]

IntMax(a, b) == IF b > a THEN b ELSE a

\* __init__(product_name, confidence, quantity)
OllamaDetectionResult(product_name, confidence, quantity) ==
    IF product_name.t # "str"
    THEN [exc |-> "AttributeError", guess |-> NoGuess]
    ELSE [exc |-> NoExc,
          guess |-> [product_name |-> strip(product_name.s),
                     confidence |-> py_min(py_max(confidence, Fin(0)), Fin(10)),
                     quantity |-> IntMax(quantity, 1)]]

\* The body of the loop's try: the three arguments are evaluated in order,
\* then the constructor runs.
BuildGuess(product) ==
    IF ~product.obj THEN [exc |-> "AttributeError", guess |-> NoGuess]
    ELSE LET c == py_float(get(product.confidence, Num(0)))
             q == py_int(get(product.quantity, Num(10)))
         IN  IF c.exc # NoExc THEN [exc |-> c.exc, guess |-> NoGuess]
             ELSE IF q.exc # NoExc THEN [exc |-> q.exc, guess |-> NoGuess]
             ELSE OllamaDetectionResult(get(product.name, Str(<< >>)),
                                        c.val, q.val)

\* except (ValueError, TypeError, KeyError): continue
EntryHandled == {"ValueError", "TypeError", "KeyError"}

RECURSIVE ParseProducts(_, _, _)
ParseProducts(products, i, results) ==
    IF i > Len(products) THEN [exc |-> NoExc, results |-> results]
    ELSE LET r == BuildGuess(products[i])
         IN  IF r.exc = NoExc
             THEN ParseProducts(products, i + 1,
                    IF r.guess.product_name # << >>
                    THEN Append(results, r.guess) ELSE results)
             ELSE IF IsInstance(r.exc, EntryHandled)
             THEN ParseProducts(products, i + 1, results)
             ELSE [exc |-> r.exc, results |-> << >>]

\* str.find and str.rfind, 0-based, -1 when absent.
find(text, ch) ==
    LET at == {i \in 1..Len(text) : text[i] = ch}
    IN  IF at = {} THEN -1
        ELSE (CHOOSE i \in at : \A j \in at : i <= j) - 1

rfind(text, ch) ==
    LET at == {i \in 1..Len(text) : text[i] = ch}
    IN  IF at = {} THEN -1
        ELSE (CHOOSE i \in at : \A j \in at : i >= j) - 1

\* text[start:end]
Slice(text, start, end) == SubSeq(text, start + 1, end)

\* json.loads on the tokens of the reply: "{" "}" is an object without a
\* products member, "{" "P" "}" an object whose products member is the
\* reply's products value; every other token sequence is not JSON.
json_loads(toks) ==
    IF toks = <<"{", "}">> THEN [exc |-> NoExc, has_products |-> FALSE]
    ELSE IF toks = <<"{", "P", "}">> THEN [exc |-> NoExc, has_products |-> TRUE]
    ELSE [exc |-> "JSONDecodeError", has_products |-> FALSE]

\* The try block of _parse_response.
ParseBody(reply) ==
    IF ~reply.is_str THEN [exc |-> "AttributeError", results |-> << >>]
    ELSE LET start == find(reply.text, "{")
             end == rfind(reply.text, "}") + 1
         IN  IF start = -1 \/ end = 0 THEN [exc |-> NoExc, results |-> << >>]
             ELSE LET data == json_loads(Slice(reply.text, start, end))
                  IN  IF data.exc # NoExc
                      THEN [exc |-> data.exc, results |-> << >>]
                      ELSE IF ~data.has_products
                      THEN [exc |-> NoExc, results |-> << >>]
                      ELSE IF reply.products.k # "list"
                      THEN [exc |-> "TypeError", results |-> << >>]
                      ELSE ParseProducts(reply.products.items, 1, << >>)

\* An extractor that handles the decode error only.
ParseHandled_narrow == {"JSONDecodeError"}

\* except json.JSONDecodeError: return []  /  except Exception: return []
ParseHandled == {"JSONDecodeError", "Exception"}

_parse_response(reply) ==
    LET r == ParseBody(reply)
    IN  IF r.exc = NoExc THEN r
        ELSE IF IsInstance(r.exc, ParseHandled)
        THEN [exc |-> NoExc, results |-> << >>]
        ELSE r

(***************************************************************************)
(* The inputs the exploration draws from.                                  *)
(***************************************************************************)
S_ABC == <<"A", "B", "C">>
S_RedPen == <<"R", "e", "d", " ", "P", "e", "n">>
S_pen == <<"p", "e", "n">>
S_Pan == <<"P", "a", "n">>
S_p_n == <<"p", "_", "n">>
S_abcxy == <<"a", "b", "c", "x", "y">>
S_abcyx == <<"a", "b", "c", "y", "x">>
S_abcde_padded == <<" ", "a", "b", "c", "d", "e", " ">>
S_Zed == <<"Z", "e", "d">>
S_s3 == <<"s", "3">>
S_q == <<"q">>
S_high == <<"h", "i", "g", "h">>

RecordPool ==
    { [id |-> 1, sku |-> S_ABC, name |-> S_RedPen, aliases |-> <<S_pen>>],
      [id |-> 2, sku |-> S_pen, name |-> S_Pan,    aliases |-> << >>],
      [id |-> 3, sku |-> S_s3,  name |-> S_abcxy,  aliases |-> << >>],
      [id |-> 4, sku |-> S_q,   name |-> S_Zed,    aliases |-> <<S_abcyx>>] }

\* Tables of at most MaxItems rows, no row twice (id and sku are unique).
Inventories ==
    UNION { {inv \in [1..n -> RecordPool] :
                \A i, j \in 1..n : i # j => inv[i].id # inv[j].id} :
            n \in 0..MaxItems }

Entry(name, confidence, quantity) ==
    [obj |-> TRUE, name |-> name, confidence |-> confidence,
     quantity |-> quantity]

NonObjectEntry == [obj |-> FALSE, name |-> Absent, confidence |-> Absent,
                   quantity |-> Absent]

EntryPool ==
    { Entry(Str(S_pen), Num(9), Num(20)),
      Entry(Str(S_ABC), Num(15), Num(0)),
      Entry(Str(S_abcde_padded), Num(-3), Num(27)),
      Entry(Str(S_p_n), Absent, Absent),
      Entry(Str(S_pen), NaNLit, Num(10)),
      Entry(Absent, Num(9), Num(10)),
      Entry(Str(S_pen), Str(S_high), Num(10)),
      Entry(Str(S_pen), Num(9), Null),
      Entry(Str(S_pen), Num(9), InfLit),
      Entry(Num(1230), Num(9), Num(10)),
      NonObjectEntry }

ListOf(items) == [k |-> "list", items |-> items]
NullProducts == [k |-> "null", items |-> << >>]
NumberProducts == [k |-> "num", items |-> << >>]

ProductsPool ==
    {ListOf(items) : items \in UNION {[1..n -> EntryPool] : n \in 0..MaxProducts}}
    \cup {NullProducts, NumberProducts}

\* Replies: "x" is text that is no brace, "P" the products member.
PlainTexts ==
    { << >>,
      <<"x">>,
      <<"x", "{", "P">>,
      <<"P", "}">>,
      <<"}", "x", "{">>,
      <<"{", "x", "}">>,
      <<"{", "}">>,
      <<"{", "P", "}", "}">> }

WrappedText == <<"x", "{", "P", "}", "x">>

Replies ==
    {[is_str |-> TRUE, text |-> t, products |-> ListOf(<< >>)] : t \in PlainTexts}
    \cup {[is_str |-> TRUE, text |-> WrappedText, products |-> p] :
            p \in ProductsPool}
    \cup {[is_str |-> FALSE, text |-> << >>, products |-> ListOf(<< >>)]}

NoReply == [is_str |-> FALSE, text |-> <<"-">>, products |-> ListOf(<< >>)]

MaxImageLen == 5000000

ImagePool ==
    { [len |-> 0, base64 |-> TRUE],
      [len |-> 4, base64 |-> TRUE],
      [len |-> 4, base64 |-> FALSE],
      [len |-> MaxImageLen + 1, base64 |-> TRUE] }

SessionStates == {"missing", "active", "completed"}

\* What the inference call may come to.
TransportOutcomes == {"ok", "refused", "timeout", "http_error", "bad_body"}

TransportException(outcome) ==
    CASE outcome = "refused"    -> "requests.ConnectionError"
      [] outcome = "timeout"    -> "requests.Timeout"
      [] outcome = "http_error" -> "requests.HTTPError"
      [] outcome = "bad_body"   -> "requests.JSONDecodeError"
      [] OTHER -> NoExc

(***************************************************************************)
(* One detection request.                                                  *)
(***************************************************************************)
VARIABLES pc, session, image, inventory, net_calls, transport, reply,
          ollama_results, idx, best_match, detection_results, raised, status

vars == <<pc, session, image, inventory, net_calls, transport, reply,
          ollama_results, idx, best_match, detection_results, raised, status>>

Init ==
    /\ pc = "request"
    /\ session \in SessionStates
    /\ image \in ImagePool
    /\ inventory \in Inventories
    /\ net_calls = 0
    /\ transport = "none"
    /\ reply = NoReply
    /\ ollama_results = << >>
    /\ idx = 0
    /\ best_match = NoMatch
    /\ detection_results = << >>
    /\ raised = NoExc
    /\ status = 0

\* The request ends with an error status.
Reject(exc, code) ==
    /\ pc' = "done"
    /\ raised' = exc
    /\ status' = code

\* The except clauses of detect_from_image, in order.
RouterStatus(exc) ==
    IF IsInstance(exc, {"ValueError"}) THEN 400
    ELSE IF IsInstance(exc, {"ConnectionError"}) THEN 503
    ELSE 500

\* ImageDetectionRequest.validate_image; a rejected body is answered 422.
validate_image(v) == v.len # 0 /\ v.len <= MaxImageLen /\ v.base64

ValidateRequest ==
    /\ pc = "request"
    /\ IF validate_image(image)
       THEN pc' = "session" /\ UNCHANGED <<raised, status>>
       ELSE Reject("RequestValidationError", 422)
    /\ UNCHANGED <<session, image, inventory, net_calls, transport, reply,
                   ollama_results, idx, best_match, detection_results>>

\* A session check that tests existence only.
CheckSession_lax ==
    /\ pc = "session"
    /\ IF session = "missing" THEN Reject("HTTPException", 404)
       ELSE pc' = "inventory" /\ UNCHANGED <<raised, status>>
    /\ UNCHANGED <<session, image, inventory, net_calls, transport, reply,
                   ollama_results, idx, best_match, detection_results>>

\* Verify session exists and is active: raised outside the try.
CheckSession ==
    /\ pc = "session"
    /\ IF session = "missing" THEN Reject("HTTPException", 404)
       ELSE IF session # "active" THEN Reject("HTTPException", 400)
       ELSE pc' = "inventory" /\ UNCHANGED <<raised, status>>
    /\ UNCHANGED <<session, image, inventory, net_calls, transport, reply,
                   ollama_results, idx, best_match, detection_results>>

inventory_names == [i \in 1..Len(inventory) |-> inventory[i].name]

\* Get all inventory items; the HTTPException for an empty list is raised
\* inside the try, so the except clauses see it.
FetchInventory ==
    /\ pc = "inventory"
    /\ IF inventory_names = << >>
       THEN Reject("HTTPException", RouterStatus("HTTPException"))
       ELSE pc' = "detect" /\ UNCHANGED <<raised, status>>
    /\ UNCHANGED <<session, image, inventory, net_calls, transport, reply,
                   ollama_results, idx, best_match, detection_results>>

\* detect_products up to requests.post: the two input checks, then the call.
SendInference ==
    /\ pc = "detect"
    /\ IF image.len = 0 \/ inventory_names = << >>
       THEN Reject("ValueError", RouterStatus("ValueError"))
            /\ UNCHANGED net_calls
       ELSE /\ pc' = "inflight"
            /\ net_calls' = net_calls + 1
            /\ UNCHANGED <<raised, status>>
    /\ UNCHANGED <<session, image, inventory, transport, reply,
                   ollama_results, idx, best_match, detection_results>>

\* The call fails; detect_products logs and re-raises.
TransportFails ==
    /\ pc = "inflight"
    /\ \E outcome \in TransportOutcomes \ {"ok"} :
          /\ transport' = outcome
          /\ Reject(TransportException(outcome),
                    RouterStatus(TransportException(outcome)))
    /\ UNCHANGED <<session, image, inventory, net_calls, reply,
                   ollama_results, idx, best_match, detection_results>>

\* The call returns a body; its response text goes through _parse_response.
\* The evaluation duration of the body only sets processing_time_ms, which no
\* later step reads, and is left out.
ReplyArrives ==
    /\ pc = "inflight"
    /\ \E r \in Replies :
          LET parsed == _parse_response(r)
          IN  /\ transport' = "ok"
              /\ reply' = r
              /\ IF parsed.exc # NoExc
                 THEN /\ Reject(parsed.exc, RouterStatus(parsed.exc))
                      /\ UNCHANGED <<ollama_results, idx>>
                 ELSE /\ ollama_results' = parsed.results
                      /\ idx' = 1
                      /\ pc' = "match"
                      /\ UNCHANGED <<raised, status>>
    /\ UNCHANGED <<session, image, inventory, net_calls, best_match,
                   detection_results>>

\* DetectionResult(...): confidence ge 0 le 1, quantity ge 1.
DetectionResultValid(confidence, quantity) ==
    /\ confidence.k = "fin"
    /\ confidence.v >= 0
    /\ confidence.v <= 10
    /\ quantity >= 1

\* An outcome that reports the record's name as the text matched from.
DetectionResult_renamed(match, ollama_result) ==
    [inventory_id |-> match.id,
     name |-> match.name,
     sku |-> match.sku,
     confidence |-> ollama_result.confidence,
     quantity |-> ollama_result.quantity,
     matched_from |-> match.name]

DetectionResult(match, ollama_result) ==
    [inventory_id |-> match.id,
     name |-> match.name,
     sku |-> match.sku,
     confidence |-> ollama_result.confidence,
     quantity |-> ollama_result.quantity,
     matched_from |-> ollama_result.product_name]

\* One turn of the loop over ollama_results.
MatchGuess ==
    /\ pc = "match"
    /\ idx <= Len(ollama_results)
    /\ LET ollama_result == ollama_results[idx]
       IN  /\ best_match' = match_product(inventory, ollama_result.product_name)
           /\ IF best_match' = NoMatch
              THEN /\ idx' = idx + 1
                   /\ UNCHANGED <<pc, raised, status, detection_results>>
              ELSE IF DetectionResultValid(ollama_result.confidence,
                                           ollama_result.quantity)
              THEN /\ detection_results' =
                         Append(detection_results,
                                DetectionResult(best_match', ollama_result))
                   /\ idx' = idx + 1
                   /\ UNCHANGED <<pc, raised, status>>
              ELSE /\ Reject("ValidationError", RouterStatus("ValidationError"))
                   /\ UNCHANGED <<idx, detection_results>>
    /\ UNCHANGED <<session, image, inventory, net_calls, transport, reply,
                   ollama_results>>

\* return ImageDetectionResponse(results=detection_results, ...)
Respond ==
    /\ pc = "match"
    /\ idx > Len(ollama_results)
    /\ pc' = "done"
    /\ status' = 200
    /\ UNCHANGED <<session, image, inventory, net_calls, transport, reply,
                   ollama_results, idx, best_match, detection_results, raised>>

Next ==
    \/ ValidateRequest
    \/ CheckSession
    \/ FetchInventory
    \/ SendInference
    \/ TransportFails
    \/ ReplyArrives
    \/ MatchGuess
    \/ Respond

Spec == Init /\ [][Next]_vars

(***************************************************************************)
(* Properties.                                                             *)
(***************************************************************************)
\* The loop has handled a guess: best_match is the matcher's answer for it.
Acted == idx > 1 /\ raised # "ValidationError"
LastGuess == ollama_results[idx - 1]
norm(d) == strip(lower(d))
Rows == {inventory[i] : i \in 1..Len(inventory)}

\* The tiers as the specification words them: case-insensitive equality of
\* the normalized detected name with the sku, the name, an alias.
SkuHit(c, d) == lower(c.sku) = norm(d)
NameHit(c, d) == lower(c.name) = norm(d)
AliasHit(c, d) == \E k \in 1..Len(c.aliases) : lower(c.aliases[k]) = norm(d)

TierOf(c, d) ==
    IF SkuHit(c, d) THEN 1
    ELSE IF NameHit(c, d) THEN 2
    ELSE IF AliasHit(c, d) THEN 3
    ELSE 4

\* C1: the tiers are resolved in the order exact SKU, exact name, alias,
\* fuzzy, and the first tier that some candidate hits decides: the returned
\* record is a candidate hitting that earliest tier.
C1_FirstTierDecides ==
    Acted =>
        \A c \in Rows :
            (TierOf(c, LastGuess.product_name) < 4
             /\ \A o \in Rows : TierOf(o, LastGuess.product_name)
                                  >= TierOf(c, LastGuess.product_name))
            => (best_match # NoMatch
                /\ TierOf(best_match, LastGuess.product_name)
                     = TierOf(c, LastGuess.product_name))

\* C2: the exact-SKU tier is case-insensitive: a candidate c whose sku,
\* lower-cased, equals the trimmed lower-cased detected name is returned.
C2_SkuCaseInsensitive ==
    Acted =>
        \A c \in Rows :
            SkuHit(c, LastGuess.product_name) => best_match = c

\* The fuzzy sweep, stated over the set of scored strings.
NoExactHit(d) ==
    /\ SkuTier(inventory, norm(d)) = NoMatch
    /\ NameTier(inventory, norm(d)) = NoMatch
    /\ AliasTier(inventory, norm(d)) = NoMatch

Targets == SweepTargets(inventory, 1)
Scores(d) == [k \in 1..Len(Targets) |-> ratio(norm(d), lower(Targets[k].text))]
IsMax(scores, k) == \A j \in DOMAIN scores : ScoreGe(scores[k], scores[j])
FirstMax(scores) ==
    CHOOSE k \in DOMAIN scores :
        IsMax(scores, k) /\ \A j \in 1..(k - 1) : ~IsMax(scores, j)

ValidEntry(e) ==
    /\ e.obj
    /\ get(e.name, Str(<< >>)).t = "str"
    /\ strip(get(e.name, Str(<< >>)).s) # << >>
    /\ get(e.confidence, Num(0)).t \in {"num", "nan", "inf"}
    /\ get(e.quantity, Num(10)).t = "num"

RECURSIVE ValidGuesses(_, _)
ValidGuesses(products, i) ==
    IF i > Len(products) THEN << >>
    ELSE (IF ValidEntry(products[i])
          THEN <<BuildGuess(products[i]).guess>> ELSE << >>)
         \o ValidGuesses(products, i + 1)

ProductsRead ==
    /\ transport = "ok"
    /\ reply.is_str
    /\ reply.text = WrappedText
    /\ reply.products.k = "list"

\* C4: an entry that cannot be coerced, or whose name is empty, is skipped
\* without aborting the batch: the guesses are exactly the valid entries, in
\* order, whatever invalid entries sit beside them.
C4_InvalidEntriesSkipped ==
    ProductsRead => ollama_results = ValidGuesses(reply.products.items, 1)

\* The statuses reported for failures of the inference call and for
\* unexpected internal errors.
UpstreamStatuses ==
    {RouterStatus(TransportException(o)) : o \in {"refused", "timeout", "http_error"}}
    \cup {RouterStatus("RuntimeError")}

\* C5: a missing session, a session that is not active and an empty
\* inventory are each answered with a 4xx status that differs from the
\* status of upstream failures and of unexpected internal errors.
C5_PreconditionRejections ==
    (pc = "done" /\ validate_image(image)
     /\ (session # "active" \/ inventory = << >>))
    => (status \in 400..499 /\ status \notin UpstreamStatuses)

\* C6: a connection refusal, a timeout and any other transport failure of
\* the inference call are answered as service unavailable (503).
C6_TransportFailureUnavailable ==
    (pc = "done" /\ transport \in {"refused", "timeout", "http_error"})
    => status = 503

NoBraces(text) ==
    \/ \A i \in 1..Len(text) : text[i] # "{"
    \/ \A i \in 1..Len(text) : text[i] # "}"

Unparsable(text) ==
    /\ ~NoBraces(text)
    /\ json_loads(Slice(text, find(text, "{"), rfind(text, "}") + 1)).exc # NoExc

NoProductsSequence(r) ==
    /\ ~NoBraces(r.text)
    /\ ~Unparsable(r.text)
    /\ \/ ~json_loads(Slice(r.text, find(r.text, "{"), rfind(r.text, "}") + 1)).has_products
       \/ r.products.k # "list"

\* C7: the extractor never throws: once a reply has arrived the request is
\* in the matching loop or beyond it with a sequence of guesses, and the
\* sequence is empty when the text lacks a brace, when the text between the
\* first { and the last } does not parse, and when there is no usable
\* products sequence.
C7_ExtractorNeverThrows ==
    transport = "ok" =>
        /\ idx >= 1
        /\ raised \in {NoExc, "ValidationError"}
        /\ (~reply.is_str \/ NoBraces(reply.text) \/ Unparsable(reply.text)
            \/ NoProductsSequence(reply))
           => ollama_results = << >>

\* C7 witness: the products member is not a sequence, which raises inside
\* the extractor; the request went on with no guesses.
C7_Witness ==
    /\ transport = "ok"
    /\ reply.text = WrappedText
    /\ reply.products.k = "null"
    /\ pc = "done"
    /\ status = 200
    /\ ollama_results = << >>

InRange(confidence, quantity) ==
    /\ confidence.k = "fin"
    /\ confidence.v >= 0
    /\ confidence.v <= 10
    /\ quantity >= 1

\* C8: every guess of the extractor and every outcome returned has its
\* confidence in [0,1] and its quantity at least 1, whatever the reply held.
C8_RangesHold ==
    /\ \A i \in 1..Len(ollama_results) :
          InRange(ollama_results[i].confidence, ollama_results[i].quantity)
    /\ \A i \in 1..Len(detection_results) :
          InRange(detection_results[i].confidence,
                  detection_results[i].quantity)

PreconditionsPass ==
    /\ session = "active"
    /\ inventory # << >>
    /\ image.len > 0
    /\ inventory_names # << >>

\* C9: the inference request is sent only after every precondition has
\* passed; with a missing or inactive session, an empty inventory, an empty
\* image or an empty name list the request is rejected and no call is made.
C9_NoCallBeforePreconditions ==
    /\ net_calls > 0 => PreconditionsPass
    /\ (pc = "done" /\ ~PreconditionsPass)
       => (net_calls = 0 /\ status >= 400 /\ raised # NoExc)

\* C9 witness: an active session and a valid image with an empty inventory:
\* rejected with no call made.
C9_Witness ==
    /\ pc = "done"
    /\ session = "active"
    /\ validate_image(image)
    /\ inventory = << >>
    /\ net_calls = 0
    /\ status >= 400

RECURSIVE ExpectedOutcomes(_, _)
ExpectedOutcomes(guesses, i) ==
    IF i > Len(guesses) THEN << >>
    ELSE LET g == guesses[i]
             m == match_product(inventory, g.product_name)
         IN  (IF m = NoMatch THEN << >>
              ELSE <<[inventory_id |-> m.id, name |-> m.name, sku |-> m.sku,
                      confidence |-> g.confidence, quantity |-> g.quantity,
                      matched_from |-> g.product_name]>>)
             \o ExpectedOutcomes(guesses, i + 1)

\* C10: the outcomes returned are exactly the matched guesses, in guess
\* order, each with the record's id, name and sku and the guess's
\* confidence, quantity and name; unmatched guesses add nothing and raise
\* nothing, so there are never more outcomes than guesses.
C10_OutcomesAreMatchedGuesses ==
    /\ Len(detection_results) <= Len(ollama_results)
    /\ (pc = "done" /\ status = 200)
       => detection_results = ExpectedOutcomes(ollama_results, 1)
    /\ (Acted /\ best_match = NoMatch) => raised = NoExc

\* C10 witness: two guesses, the first without a match and the second with
\* one; one outcome returned.
C10_Witness ==
    /\ pc = "done"
    /\ status = 200
    /\ Len(ollama_results) = 2
    /\ match_product(inventory, ollama_results[1].product_name) = NoMatch
    /\ Len(detection_results) = 1
    /\ detection_results[1].matched_from = ollama_results[2].product_name

====
